---- MODULE Spec2Model ----
(***************************************************************************)
(* wsh connserver in router mode (cmd/wsh/cmd/wshcmd-connserver.go).       *)
(*                                                                         *)
(* The process is modelled as its goroutines: the main goroutine of        *)
(* serverRunRouter, the stdin parser with the rawCh drain loop and the     *)
(* upstream inject loop behind it, the stdout writer, the accept loop of   *)
(* runListener and, per accepted connection, the handler                   *)
(* (handleNewListenerConn), its read worker with the deferred teardown and *)
(* its write worker.  The router, the proxy's authentication and the       *)
(* shutdown entry point live in package wshutil; they are modelled from    *)
(* their contract.                                                         *)
(*                                                                         *)
(* Specifications: Spec is the process with stdin seen as a stream of      *)
(* bytes that ends (startup, listener, connections, shutdown); UpSpec is   *)
(* the upstream link with its envelopes; FullSpec is both; ConnSpec is the *)
(* connection handlers of a serving router on their own.                   *)
(***************************************************************************)
EXTENDS Integers, Sequences, FiniteSets

\* ------------------------------------------------------------- bounds
\* connections accepted while the handlers are studied on their own (ConnSpec)
MaxConns == 2
\* connections accepted in the model of the whole process (Spec)
MaxRouterConns == 1
MaxQueue == 1
MaxAcceptErrs == 1
MaxRaw == 1
\* envelopes decoded from stdin, and envelopes routed to the upstream
MaxPackets == 2
MaxOut == 2

\* ---------------------------------------------------------- constants
\* exit codes handed to DoShutdown
ExitOk == 0
ExitListener == 1
NotExited == -1

\* the zero value of routeIdContainer (a nil pointer) and of a route id
NoRoute == -1
\* route id of the connserver's own rpc client (authRtn.RouteId)
ConnServerRoute == 0
\* wshutil.UpstreamRoute, the sentinel the upstream's envelopes are injected under
UpstreamRoute == -2
\* registry destinations: none, the connserver client, or connection c's proxy
NoDest == -1
ClientDest == 0

Conns == 1..MaxConns
RouteIds == 0..MaxConns
Creds == {"valid", "empty", "unextractable", "rejected"}
AuthMsgs == {"valid", "invalid", "malformed"}

VARIABLES
  \* main goroutine (serverRunRouter)
  mpc, cred, sock, upstreamBound, announced,
  \* stdin parser and rawCh drain loop
  ppc, dpc, rawCh, rawClosed,
  \* accept loop (runListener)
  lpc, listenerState, acceptErrs, nAccepted, slept,
  \* router registry
  routeMap,
  \* per connection (handleNewListenerConn)
  hpc, rpc, wpc, connOpen, fromRemoteCh, toRemoteCh,
  routeId, routeIdContainer, routeIdPtr, log,
  \* upstream proxy (termProxy): stdin to the router, the router to stdout
  nDecoded, termFromRemoteCh, termClosed, ipc, injected,
  nQueued, termToRemoteCh, opc, stdout,
  \* process shutdown
  shutdown, exitCode

mainVars == <<mpc, cred, sock, upstreamBound, announced>>
stdinVars == <<ppc, dpc, rawCh, rawClosed>>
listenerVars == <<lpc, listenerState, acceptErrs, nAccepted, slept>>
connVars == <<hpc, rpc, wpc, connOpen, fromRemoteCh, toRemoteCh,
              routeId, routeIdContainer, routeIdPtr, log>>
upVars == <<nDecoded, termFromRemoteCh, termClosed, ipc, injected,
            nQueued, termToRemoteCh, opc, stdout>>
shutVars == <<shutdown, exitCode>>
vars == <<mainVars, stdinVars, listenerVars, routeMap, connVars, upVars,
          shutVars>>

\* ------------------------------------------------------ router contract
\* registerRoute: insert or overwrite
RegisterRoute(m, r, dest) == [m EXCEPT ![r] = dest]

\* unregisterRoute: remove, no-op if absent
UnregisterRoute(m, r) == [m EXCEPT ![r] = NoDest]

\* HandleClientProxyAuth mints a route id of the connection's own
MintRouteId(c) == c

\* routes of the registry bound to connection c's proxy
RoutesOf(c) == {r \in RouteIds : routeMap[r] = c}

\* DoShutdown ends the process: nothing runs once it has been called
Running == ~shutdown

DoShutdown(code) ==
  /\ shutdown' = TRUE
  /\ exitCode' = code

\* one entry of a connection's record of what its goroutines did to the router
\* ("register", "unregister", "dispose") and of its authentication error log
Event(op, r) == [op |-> op, route |-> r]

\* ---------------------------------------------------------------- Init
Init ==
  /\ mpc = "start"
  /\ cred \in Creds
  /\ sock \in {"absent", "stale"}
  /\ upstreamBound = FALSE
  /\ announced = FALSE
  /\ ppc = "none"
  /\ dpc = "none"
  /\ rawCh = 0
  /\ rawClosed = FALSE
  /\ lpc = "none"
  /\ listenerState = "none"
  /\ acceptErrs = 0
  /\ nAccepted = 0
  /\ slept = FALSE
  /\ routeMap = [r \in RouteIds |-> NoDest]
  /\ hpc = [c \in Conns |-> "none"]
  /\ rpc = [c \in Conns |-> "none"]
  /\ wpc = [c \in Conns |-> "none"]
  /\ connOpen = [c \in Conns |-> FALSE]
  /\ fromRemoteCh = [c \in Conns |-> "none"]
  /\ toRemoteCh = [c \in Conns |-> 0]
  /\ routeId = [c \in Conns |-> NoRoute]
  /\ routeIdContainer = [c \in Conns |-> NoRoute]
  /\ routeIdPtr = [c \in Conns |-> NoRoute]
  /\ log = [c \in Conns |-> <<>>]
  /\ nDecoded = 0
  /\ termFromRemoteCh = <<>>
  /\ termClosed = FALSE
  /\ ipc = "none"
  /\ injected = <<>>
  /\ nQueued = 0
  /\ termToRemoteCh = <<>>
  /\ opc = "none"
  /\ stdout = <<>>
  /\ shutdown = FALSE
  /\ exitCode = NotExited


\* ------------------------------------------- main: serverRunRouter
\* go packetparser.Parse(...); go func() { for msg := range ToRemoteCh ... }();
\* go func() { for range rawCh ... }(); go func() { for msg := range FromRemoteCh ... }()
MainSpawn ==
  /\ Running /\ mpc = "start"
  /\ ppc' = "running"
  /\ opc' = "running"
  /\ dpc' = "running"
  /\ ipc' = "running"
  /\ mpc' = "upstream"
  /\ UNCHANGED <<cred, sock, upstreamBound, announced, rawCh, rawClosed,
                 listenerVars, routeMap, connVars, nDecoded,
                 termFromRemoteCh, termClosed, injected, nQueued,
                 termToRemoteCh, stdout, shutVars>>

\* router.SetUpstreamClient(termProxy)
MainSetUpstream ==
  /\ Running /\ mpc = "upstream"
  /\ upstreamBound' = TRUE
  /\ mpc' = "remove"
  /\ UNCHANGED <<cred, sock, announced, stdinVars, listenerVars, routeMap,
                 connVars, shutVars,
                 upVars>>

\* MakeRemoteUnixListener: os.Remove(serverAddr), error ignored
SockRemove ==
  /\ Running /\ mpc = "remove"
  /\ sock' = "absent"
  /\ mpc' = "listen"
  /\ UNCHANGED <<cred, upstreamBound, announced, stdinVars, listenerVars,
                 routeMap, connVars, shutVars,
                 upVars>>

\* net.Listen("unix", serverAddr) succeeds: the socket file exists with the
\* permissions the umask leaves it
SockListenOk ==
  /\ Running /\ mpc = "listen"
  /\ sock' = "bound"
  /\ listenerState' = "open"
  /\ mpc' = "chmod"
  /\ UNCHANGED <<cred, upstreamBound, announced, stdinVars, lpc, acceptErrs,
                 nAccepted, slept, routeMap, connVars, shutVars,
                 upVars>>

\* net.Listen fails: serverRunRouter returns "cannot create unix listener"
SockListenFail ==
  /\ Running /\ mpc = "listen"
  /\ mpc' = "failed"
  /\ UNCHANGED <<cred, sock, upstreamBound, announced, stdinVars,
                 listenerVars, routeMap, connVars, shutVars,
                 upVars>>

\* os.Chmod(serverAddr, 0700)
SockChmod ==
  /\ Running /\ mpc = "chmod"
  /\ sock' = "owner"
  /\ mpc' = "jwt"
  /\ UNCHANGED <<cred, upstreamBound, announced, stdinVars, listenerVars,
                 routeMap, connVars, shutVars,
                 upVars>>

\* what each startup check of setupConnServerRpcClientWithRouter refuses
JwtMissing == cred = "empty"
ExtractFails == cred \in {"empty", "unextractable"}
ProxyAuthFails == cred # "valid"

\* jwtToken == "" : error
SetupJwt ==
  /\ Running /\ mpc = "jwt"
  /\ mpc' = IF JwtMissing THEN "failed" ELSE "extract"
  /\ UNCHANGED <<cred, sock, upstreamBound, announced, stdinVars,
                 listenerVars, routeMap, connVars, shutVars,
                 upVars>>

\* wshutil.ExtractUnverifiedRpcContext(jwtToken)
SetupExtract ==
  /\ Running /\ mpc = "extract"
  /\ mpc' = IF ExtractFails THEN "failed" ELSE "proxyauth"
  /\ UNCHANGED <<cred, sock, upstreamBound, announced, stdinVars,
                 listenerVars, routeMap, connVars, shutVars,
                 upVars>>

\* a variant that drops the error of router.HandleProxyAuth
SetupProxyAuth_ErrIgnored ==
  /\ Running /\ mpc = "proxyauth"
  /\ mpc' = "register"
  /\ UNCHANGED <<cred, sock, upstreamBound, announced, stdinVars,
                 listenerVars, routeMap, connVars, shutVars,
                 upVars>>

\* router.HandleProxyAuth(jwtToken)
SetupProxyAuth ==
  /\ Running /\ mpc = "proxyauth"
  /\ mpc' = IF ProxyAuthFails THEN "failed" ELSE "register"
  /\ UNCHANGED <<cred, sock, upstreamBound, announced, stdinVars,
                 listenerVars, routeMap, connVars, shutVars,
                 upVars>>

\* router.RegisterRoute(authRtn.RouteId, connServerClient, false)
SetupRegister ==
  /\ Running /\ mpc = "register"
  /\ routeMap' = RegisterRoute(routeMap, ConnServerRoute, ClientDest)
  /\ mpc' = "announce"
  /\ UNCHANGED <<cred, sock, upstreamBound, announced, stdinVars,
                 listenerVars, connVars, shutVars,
                 upVars>>

\* a variant of the setup that returns without the route announcement
SetupAnnounce_Skipped ==
  /\ Running /\ mpc = "announce"
  /\ mpc' = "golisten"
  /\ UNCHANGED <<cred, sock, upstreamBound, announced, stdinVars,
                 listenerVars, routeMap, connVars, shutVars,
                 upVars>>

\* wshclient.RouteAnnounceCommand(connServerClient, nil)
SetupAnnounce ==
  /\ Running /\ mpc = "announce"
  /\ announced' = TRUE
  /\ mpc' = "golisten"
  /\ UNCHANGED <<cred, sock, upstreamBound, stdinVars, listenerVars,
                 routeMap, connVars, shutVars,
                 upVars>>

\* go runListener(unixListener, router); then the sysinfo loop, forever
MainGoListener ==
  /\ Running /\ mpc = "golisten"
  /\ lpc' = "accept"
  /\ mpc' = "serving"
  /\ UNCHANGED <<cred, sock, upstreamBound, announced, stdinVars,
                 listenerState, acceptErrs, nAccepted, slept, routeMap,
                 connVars, shutVars,
                 upVars>>

MainStep ==
  \/ MainSpawn
  \/ MainSetUpstream
  \/ SockRemove
  \/ SockListenOk
  \/ SockListenFail
  \/ SockChmod
  \/ SetupJwt
  \/ SetupExtract
  \/ SetupProxyAuth
  \/ SetupRegister
  \/ SetupAnnounce
  \/ MainGoListener

\* ------------------------------------------------ stdin: Parse and drain
\* the parser hands a run of non-packet bytes to rawCh
ParseRaw ==
  /\ Running /\ ppc = "running"
  /\ rawCh < MaxRaw
  /\ rawCh' = rawCh + 1
  /\ UNCHANGED <<mainVars, ppc, dpc, rawClosed, listenerVars, routeMap,
                 connVars, shutVars,
                 upVars>>

\* the parser decodes the next envelope of stdin and hands it to
\* termProxy.FromRemoteCh (it waits while the channel is full); envelopes
\* are numbered in the order of the stream
ParsePacket ==
  /\ Running /\ ppc = "running"
  /\ nDecoded < MaxPackets
  /\ Len(termFromRemoteCh) < MaxQueue
  /\ nDecoded' = nDecoded + 1
  /\ termFromRemoteCh' = Append(termFromRemoteCh, nDecoded + 1)
  /\ UNCHANGED <<mainVars, stdinVars, listenerVars, routeMap, connVars,
                 termClosed, ipc, injected, nQueued, termToRemoteCh, opc,
                 stdout, shutVars>>

\* stdin reaches end-of-stream: the parser closes its channels and returns
ParseEOF ==
  /\ Running /\ ppc = "running"
  /\ ppc' = "done"
  /\ rawClosed' = TRUE
  /\ termClosed' = TRUE
  /\ UNCHANGED <<mainVars, dpc, rawCh, listenerVars, routeMap, connVars,
                 nDecoded, termFromRemoteCh, ipc, injected, nQueued,
                 termToRemoteCh, opc, stdout, shutVars>>

\* for range rawCh { } : one element received and ignored
DrainRaw ==
  /\ Running /\ dpc = "running"
  /\ rawCh > 0
  /\ rawCh' = rawCh - 1
  /\ UNCHANGED <<mainVars, ppc, dpc, rawClosed, listenerVars, routeMap,
                 connVars, shutVars,
                 upVars>>

\* rawCh closed and drained: the loop ends, defer wshutil.DoShutdown("", 0, true)
DrainDone ==
  /\ Running /\ dpc = "running"
  /\ rawCh = 0 /\ rawClosed
  /\ dpc' = "done"
  /\ DoShutdown(ExitOk)
  /\ UNCHANGED <<mainVars, ppc, rawCh, rawClosed, listenerVars, routeMap,
                 connVars,
                 upVars>>

DrainStep == DrainRaw \/ DrainDone

\* ------------------------------------- upstream proxy: inject and write
\* one call of router.InjectMessage, with the binding of the upstream as the
\* call found it
Injection(msg, src) == [msg |-> msg, source |-> src, bound |-> upstreamBound]

\* for msg := range termProxy.FromRemoteCh { router.InjectMessage(msg, UpstreamRoute) }
UpstreamInject ==
  /\ Running /\ ipc = "running"
  /\ termFromRemoteCh # <<>>
  /\ injected' = Append(injected, Injection(Head(termFromRemoteCh), UpstreamRoute))
  /\ termFromRemoteCh' = Tail(termFromRemoteCh)
  /\ UNCHANGED <<mainVars, stdinVars, listenerVars, routeMap, connVars,
                 nDecoded, termClosed, ipc, nQueued, termToRemoteCh, opc,
                 stdout, shutVars>>

\* termProxy.FromRemoteCh is closed and empty: the range loop ends
UpstreamInjectDone ==
  /\ Running /\ ipc = "running"
  /\ termFromRemoteCh = <<>> /\ termClosed
  /\ ipc' = "done"
  /\ UNCHANGED <<mainVars, stdinVars, listenerVars, routeMap, connVars,
                 nDecoded, termFromRemoteCh, termClosed, injected, nQueued,
                 termToRemoteCh, opc, stdout, shutVars>>

InjectStep == UpstreamInject \/ UpstreamInjectDone

\* the router resolves an envelope to the upstream binding and queues it on
\* termProxy.ToRemoteCh; envelopes are numbered in the order they are queued
RouterToUpstream ==
  /\ Running
  /\ upstreamBound
  /\ nQueued < MaxOut
  /\ Len(termToRemoteCh) < MaxQueue
  /\ nQueued' = nQueued + 1
  /\ termToRemoteCh' = Append(termToRemoteCh, nQueued + 1)
  /\ UNCHANGED <<mainVars, stdinVars, listenerVars, routeMap, connVars,
                 nDecoded, termFromRemoteCh, termClosed, ipc, injected, opc,
                 stdout, shutVars>>

\* for msg := range termProxy.ToRemoteCh { packetparser.WritePacket(os.Stdout, msg) }
StdoutWrite ==
  /\ Running /\ opc = "running"
  /\ termToRemoteCh # <<>>
  /\ stdout' = Append(stdout, Head(termToRemoteCh))
  /\ termToRemoteCh' = Tail(termToRemoteCh)
  /\ UNCHANGED <<mainVars, stdinVars, listenerVars, routeMap, connVars,
                 nDecoded, termFromRemoteCh, termClosed, ipc, injected,
                 nQueued, opc, shutVars>>

\* -------------------------------------------------- runListener
Min(a, b) == IF a < b THEN a ELSE b

\* listener.Accept() returns a connection: go handleNewListenerConn(conn, router)
AcceptConn(cap) ==
  /\ Running /\ lpc = "accept"
  /\ listenerState = "open"
  /\ nAccepted < cap
  /\ nAccepted' = nAccepted + 1
  /\ hpc' = [hpc EXCEPT ![nAccepted + 1] = "start"]
  /\ connOpen' = [connOpen EXCEPT ![nAccepted + 1] = TRUE]
  /\ UNCHANGED <<mainVars, stdinVars, lpc, listenerState, acceptErrs, slept,
                 routeMap, rpc, wpc, fromRemoteCh, toRemoteCh, routeId,
                 routeIdContainer, routeIdPtr, log, shutVars,
                 upVars>>

\* listener.Accept() returns an error other than io.EOF: logged, continue.
\* On an open listener this is a passing failure; on a closed one it is
\* net.ErrClosed, the answer of the listener net.Listen built, every time.
AcceptError ==
  /\ Running /\ lpc = "accept"
  /\ listenerState \in {"open", "closed"}
  /\ acceptErrs' = Min(acceptErrs + 1, MaxAcceptErrs)
  /\ UNCHANGED <<mainVars, stdinVars, lpc, listenerState, nAccepted, slept,
                 routeMap, connVars, shutVars,
                 upVars>>

\* listener.Accept() returns io.EOF, the one error the loop takes for the
\* end of the listener: break
AcceptEOF ==
  /\ Running /\ lpc = "accept"
  /\ listenerState = "eof"
  /\ lpc' = "sleep"
  /\ UNCHANGED <<mainVars, stdinVars, listenerState, acceptErrs, nAccepted,
                 slept, routeMap, connVars, shutVars,
                 upVars>>

\* a variant of the deferred exit that skips the grace delay
ListenerSleep_Skipped ==
  /\ Running /\ lpc = "sleep"
  /\ lpc' = "exit"
  /\ UNCHANGED <<mainVars, stdinVars, listenerState, acceptErrs, nAccepted,
                 slept, routeMap, connVars, shutVars,
                 upVars>>

\* deferred: log "listener closed, exiting"; time.Sleep(500ms)
ListenerSleep ==
  /\ Running /\ lpc = "sleep"
  /\ slept' = TRUE
  /\ lpc' = "exit"
  /\ UNCHANGED <<mainVars, stdinVars, listenerState, acceptErrs, nAccepted,
                 routeMap, connVars, shutVars,
                 upVars>>

\* deferred: wshutil.DoShutdown("", 1, true)
ListenerShutdown ==
  /\ Running /\ lpc = "exit"
  /\ lpc' = "done"
  /\ DoShutdown(ExitListener)
  /\ UNCHANGED <<mainVars, stdinVars, listenerState, acceptErrs, nAccepted,
                 slept, routeMap, connVars,
                 upVars>>

\* the listener runs out: from here on its Accept answers io.EOF (the case
\* the loop's test is written for; a listener of package net never does)
ListenerExhausted ==
  /\ Running /\ listenerState = "open"
  /\ listenerState' = "eof"
  /\ UNCHANGED <<mainVars, stdinVars, lpc, acceptErrs, nAccepted, slept,
                 routeMap, connVars, shutVars,
                 upVars>>

\* the listener is closed under the accept loop
ListenerClose ==
  /\ Running /\ listenerState = "open"
  /\ listenerState' = "closed"
  /\ UNCHANGED <<mainVars, stdinVars, lpc, acceptErrs, nAccepted, slept,
                 routeMap, connVars, shutVars,
                 upVars>>


ListenerStep(cap) ==
  \/ AcceptConn(cap)
  \/ AcceptError
  \/ AcceptEOF
  \/ ListenerSleep
  \/ ListenerShutdown

\* ------------------------------------------ handleNewListenerConn(conn)
Append1(c, op, r) == [log EXCEPT ![c] = Append(@, Event(op, r))]

\* proxy := MakeRpcProxy(); both workers are started; HandleClientProxyAuth begins
HandlerStart(c) ==
  /\ Running /\ hpc[c] = "start"
  /\ hpc' = [hpc EXCEPT ![c] = "auth"]
  /\ wpc' = [wpc EXCEPT ![c] = "running"]
  /\ rpc' = [rpc EXCEPT ![c] = "reading"]
  /\ UNCHANGED <<mainVars, stdinVars, listenerVars, routeMap, connOpen,
                 fromRemoteCh, toRemoteCh, routeId, routeIdContainer,
                 routeIdPtr, log, shutVars,
                 upVars>>

\* read worker, AdaptStreamToMsgCh: the peer's first message is decoded from
\* the socket and handed to proxy.FromRemoteCh
ReadMsg(c, k) ==
  /\ Running /\ rpc[c] = "reading"
  /\ connOpen[c]
  /\ hpc[c] = "auth"
  /\ fromRemoteCh[c] = "none"
  /\ fromRemoteCh' = [fromRemoteCh EXCEPT ![c] = k]
  /\ UNCHANGED <<mainVars, stdinVars, listenerVars, routeMap, hpc, rpc, wpc,
                 connOpen, toRemoteCh, routeId, routeIdContainer, routeIdPtr,
                 log, shutVars,
                 upVars>>

\* a variant of the handler that publishes the route id to the teardown as
\* soon as the authentication has succeeded, before RegisterRoute
AuthOk_StoreEarly(c) ==
  /\ Running /\ hpc[c] = "auth"
  /\ fromRemoteCh[c] = "valid"
  /\ fromRemoteCh' = [fromRemoteCh EXCEPT ![c] = "none"]
  /\ routeId' = [routeId EXCEPT ![c] = MintRouteId(c)]
  /\ routeIdContainer' = [routeIdContainer EXCEPT ![c] = MintRouteId(c)]
  /\ hpc' = [hpc EXCEPT ![c] = "register"]
  /\ UNCHANGED <<mainVars, stdinVars, listenerVars, routeMap, rpc, wpc,
                 connOpen, toRemoteCh, routeIdPtr, log, shutVars,
                 upVars>>

\* HandleClientProxyAuth returns (routeId, nil): a valid authentication
\* envelope was received from FromRemoteCh
AuthOk(c) ==
  /\ Running /\ hpc[c] = "auth"
  /\ fromRemoteCh[c] = "valid"
  /\ fromRemoteCh' = [fromRemoteCh EXCEPT ![c] = "none"]
  /\ routeId' = [routeId EXCEPT ![c] = MintRouteId(c)]
  /\ hpc' = [hpc EXCEPT ![c] = "register"]
  /\ UNCHANGED <<mainVars, stdinVars, listenerVars, routeMap, rpc, wpc,
                 connOpen, toRemoteCh, routeIdContainer, routeIdPtr, log,
                 shutVars,
                 upVars>>

\* a variant of the error branch that forgets its return
AuthErr_NoReturn(c) ==
  /\ Running /\ hpc[c] = "auth"
  /\ fromRemoteCh[c] # "valid"
  /\ fromRemoteCh' = [fromRemoteCh EXCEPT ![c] = "none"]
  /\ log' = Append1(c, "autherr", NoRoute)
  /\ routeId' = [routeId EXCEPT ![c] = MintRouteId(c)]
  /\ hpc' = [hpc EXCEPT ![c] = "register"]
  /\ UNCHANGED <<mainVars, stdinVars, listenerVars, routeMap, rpc, wpc,
                 connOpen, toRemoteCh, routeIdContainer, routeIdPtr,
                 shutVars,
                 upVars>>

\* HandleClientProxyAuth returns an error: the token is invalid, the first
\* message is malformed, or none came within the grace period;
\* log "error handling client proxy auth"
AuthErr(c) ==
  /\ Running /\ hpc[c] = "auth"
  /\ fromRemoteCh[c] # "valid"
  /\ fromRemoteCh' = [fromRemoteCh EXCEPT ![c] = "none"]
  /\ log' = Append1(c, "autherr", NoRoute)
  /\ hpc' = [hpc EXCEPT ![c] = "authfail"]
  /\ UNCHANGED <<mainVars, stdinVars, listenerVars, routeMap, rpc, wpc,
                 connOpen, toRemoteCh, routeId, routeIdContainer, routeIdPtr,
                 shutVars,
                 upVars>>

\* if err != nil { ...; conn.Close(); return }
AuthErrClose(c) ==
  /\ Running /\ hpc[c] = "authfail"
  /\ connOpen' = [connOpen EXCEPT ![c] = FALSE]
  /\ hpc' = [hpc EXCEPT ![c] = "failed"]
  /\ UNCHANGED <<mainVars, stdinVars, listenerVars, routeMap, rpc, wpc,
                 fromRemoteCh, toRemoteCh, routeId, routeIdContainer,
                 routeIdPtr, log, shutVars,
                 upVars>>

\* a variant of the handler that registers its route twice over
HandlerRegister_Twice(c) ==
  /\ Running /\ hpc[c] = "register"
  /\ routeMap' = RegisterRoute(routeMap, routeId[c], c)
  /\ log' = [log EXCEPT ![c] = Append(Append(@, Event("register", routeId[c])),
                                      Event("register", routeId[c]))]
  /\ hpc' = [hpc EXCEPT ![c] = "store"]
  /\ UNCHANGED <<mainVars, stdinVars, listenerVars, rpc, wpc, connOpen,
                 fromRemoteCh, toRemoteCh, routeId, routeIdContainer,
                 routeIdPtr, shutVars,
                 upVars>>

\* router.RegisterRoute(routeId, proxy, false)
HandlerRegister(c) ==
  /\ Running /\ hpc[c] = "register"
  /\ routeMap' = RegisterRoute(routeMap, routeId[c], c)
  /\ log' = Append1(c, "register", routeId[c])
  /\ hpc' = [hpc EXCEPT ![c] = "store"]
  /\ UNCHANGED <<mainVars, stdinVars, listenerVars, rpc, wpc, connOpen,
                 fromRemoteCh, toRemoteCh, routeId, routeIdContainer,
                 routeIdPtr, shutVars,
                 upVars>>

\* routeIdContainer.Store(&routeId)
HandlerStore(c) ==
  /\ Running /\ hpc[c] = "store"
  /\ routeIdContainer' = [routeIdContainer EXCEPT ![c] = routeId[c]]
  /\ hpc' = [hpc EXCEPT ![c] = "done"]
  /\ UNCHANGED <<mainVars, stdinVars, listenerVars, routeMap, rpc, wpc,
                 connOpen, fromRemoteCh, toRemoteCh, routeId, routeIdPtr,
                 log, shutVars,
                 upVars>>

HandlerStep(c) ==
  \/ HandlerStart(c)
  \/ AuthOk(c)
  \/ AuthErr(c)
  \/ AuthErrClose(c)
  \/ HandlerRegister(c)
  \/ HandlerStore(c)

\* ----------------------------------------- read worker and its teardown
\* AdaptStreamToMsgCh returns while the connection is open: the peer
\* disconnected or the read failed
ReadEnd(c) ==
  /\ Running /\ rpc[c] = "reading"
  /\ connOpen[c]
  /\ rpc' = [rpc EXCEPT ![c] = "close"]
  /\ UNCHANGED <<mainVars, stdinVars, listenerVars, routeMap, hpc, wpc,
                 connOpen, fromRemoteCh, toRemoteCh, routeId,
                 routeIdContainer, routeIdPtr, log, shutVars,
                 upVars>>

\* AdaptStreamToMsgCh returns because the connection was closed under it
ReadOnClosed(c) ==
  /\ Running /\ rpc[c] = "reading"
  /\ ~connOpen[c]
  /\ rpc' = [rpc EXCEPT ![c] = "close"]
  /\ UNCHANGED <<mainVars, stdinVars, listenerVars, routeMap, hpc, wpc,
                 connOpen, fromRemoteCh, toRemoteCh, routeId,
                 routeIdContainer, routeIdPtr, log, shutVars,
                 upVars>>

\* deferred: conn.Close()
TeardownClose(c) ==
  /\ Running /\ rpc[c] = "close"
  /\ connOpen' = [connOpen EXCEPT ![c] = FALSE]
  /\ rpc' = [rpc EXCEPT ![c] = "load"]
  /\ UNCHANGED <<mainVars, stdinVars, listenerVars, routeMap, hpc, wpc,
                 fromRemoteCh, toRemoteCh, routeId, routeIdContainer,
                 routeIdPtr, log, shutVars,
                 upVars>>

\* deferred: routeIdPtr := routeIdContainer.Load(); if routeIdPtr != nil ...
TeardownLoad(c) ==
  /\ Running /\ rpc[c] = "load"
  /\ routeIdPtr' = [routeIdPtr EXCEPT ![c] = routeIdContainer[c]]
  /\ rpc' = [rpc EXCEPT ![c] =
               IF routeIdContainer[c] # NoRoute THEN "unregister" ELSE "done"]
  /\ UNCHANGED <<mainVars, stdinVars, listenerVars, routeMap, hpc, wpc,
                 connOpen, fromRemoteCh, toRemoteCh, routeId,
                 routeIdContainer, log, shutVars,
                 upVars>>

\* a variant of the teardown that clears the whole registry of proxies
TeardownUnregister_All(c) ==
  /\ Running /\ rpc[c] = "unregister"
  /\ routeMap' = [r \in RouteIds |->
                    IF routeMap[r] \in Conns THEN NoDest ELSE routeMap[r]]
  /\ log' = Append1(c, "unregister", routeIdPtr[c])
  /\ rpc' = [rpc EXCEPT ![c] = "dispose"]
  /\ UNCHANGED <<mainVars, stdinVars, listenerVars, hpc, wpc, connOpen,
                 fromRemoteCh, toRemoteCh, routeId, routeIdContainer,
                 routeIdPtr, shutVars,
                 upVars>>

\* deferred: router.UnregisterRoute(*routeIdPtr)
TeardownUnregister(c) ==
  /\ Running /\ rpc[c] = "unregister"
  /\ routeMap' = UnregisterRoute(routeMap, routeIdPtr[c])
  /\ log' = Append1(c, "unregister", routeIdPtr[c])
  /\ rpc' = [rpc EXCEPT ![c] = "dispose"]
  /\ UNCHANGED <<mainVars, stdinVars, listenerVars, hpc, wpc, connOpen,
                 fromRemoteCh, toRemoteCh, routeId, routeIdContainer,
                 routeIdPtr, shutVars,
                 upVars>>

\* proxy.GetAuthToken(): the token connection c's proxy was admitted with
GetAuthToken(c) == c

\* disposeMsg := &wshutil.RpcMessage{Command: Command_Dispose, Data:
\* CommandDisposeData{RouteId}, Source: *routeIdPtr, AuthToken: ...}; the
\* Route field (the destination) is left at its zero value
DisposeMsg(c) ==
  [command |-> "dispose", data |-> [routeid |-> routeIdPtr[c]],
   source |-> routeIdPtr[c], authtoken |-> GetAuthToken(c), route |-> NoRoute]

\* a variant of the Dispose injection made under the upstream's name
TeardownDispose_NoSource(c) ==
  /\ Running /\ rpc[c] = "dispose"
  /\ log' = [log EXCEPT ![c] = Append(@,
               [op |-> "dispose", route |-> NoRoute, msg |-> DisposeMsg(c)])]
  /\ rpc' = [rpc EXCEPT ![c] = "done"]
  /\ UNCHANGED <<mainVars, stdinVars, listenerVars, routeMap, hpc, wpc,
                 connOpen, fromRemoteCh, toRemoteCh, routeId,
                 routeIdContainer, routeIdPtr, shutVars,
                 upVars>>

\* deferred: router.InjectMessage(disposeBytes, *routeIdPtr); the Dispose has
\* no destination route, it goes to the local endpoint
TeardownDispose(c) ==
  /\ Running /\ rpc[c] = "dispose"
  /\ log' = [log EXCEPT ![c] = Append(@,
               [op |-> "dispose", route |-> routeIdPtr[c],
                msg |-> DisposeMsg(c)])]
  /\ rpc' = [rpc EXCEPT ![c] = "done"]
  /\ UNCHANGED <<mainVars, stdinVars, listenerVars, routeMap, hpc, wpc,
                 connOpen, fromRemoteCh, toRemoteCh, routeId,
                 routeIdContainer, routeIdPtr, shutVars,
                 upVars>>

\* the steps the read worker takes on its own
ReaderStep(c) ==
  \/ ReadOnClosed(c)
  \/ TeardownClose(c)
  \/ TeardownLoad(c)
  \/ TeardownUnregister(c)
  \/ TeardownDispose(c)

\* --------------------------------------------------------- write worker
\* the router delivers an envelope addressed to a route of connection c:
\* it is queued on the proxy's ToRemoteCh
RouterDeliver(c) ==
  /\ Running
  /\ RoutesOf(c) # {}
  /\ toRemoteCh[c] < MaxQueue
  /\ toRemoteCh' = [toRemoteCh EXCEPT ![c] = @ + 1]
  /\ UNCHANGED <<mainVars, stdinVars, listenerVars, routeMap, hpc, rpc, wpc,
                 connOpen, fromRemoteCh, routeId, routeIdContainer,
                 routeIdPtr, log, shutVars,
                 upVars>>

\* AdaptOutputChToStream: a message of ToRemoteCh is written to the socket
WriteOk(c) ==
  /\ Running /\ wpc[c] = "running"
  /\ toRemoteCh[c] > 0
  /\ connOpen[c]
  /\ toRemoteCh' = [toRemoteCh EXCEPT ![c] = @ - 1]
  /\ UNCHANGED <<mainVars, stdinVars, listenerVars, routeMap, hpc, rpc, wpc,
                 connOpen, fromRemoteCh, routeId, routeIdContainer,
                 routeIdPtr, log, shutVars,
                 upVars>>

\* AdaptOutputChToStream: the write fails (always on a closed connection);
\* the worker logs "error writing to domain socket" and ends
WriteFail(c) ==
  /\ Running /\ wpc[c] = "running"
  /\ toRemoteCh[c] > 0
  /\ wpc' = [wpc EXCEPT ![c] = "failed"]
  /\ toRemoteCh' = [toRemoteCh EXCEPT ![c] = @ - 1]
  /\ UNCHANGED <<mainVars, stdinVars, listenerVars, routeMap, hpc, rpc,
                 connOpen, fromRemoteCh, routeId, routeIdContainer,
                 routeIdPtr, log, shutVars,
                 upVars>>

WriterStep(c) == WriteOk(c) \/ WriteFail(c)

\* ----------------------------------------------------------------- Next
ConnStep(c) ==
  \/ HandlerStep(c)
  \/ \E k \in AuthMsgs : ReadMsg(c, k)
  \/ ReadEnd(c)
  \/ ReaderStep(c)
  \/ RouterDeliver(c)
  \/ WriterStep(c)

\* the process from the start of serverRunRouter; of stdin it sees the
\* passthrough bytes and the end of the stream
Next ==
  \/ MainStep
  \/ ParseRaw
  \/ ParseEOF
  \/ DrainStep
  \/ ListenerStep(MaxRouterConns)
  \/ ListenerExhausted
  \/ ListenerClose
  \/ \E c \in Conns : ConnStep(c)

Spec == Init /\ [][Next]_vars

\* Scheduling: every goroutine that can take a step of its own eventually takes
\* it.  What the peers, the upstream stream and the listener's owner do (send,
\* disconnect, deliver, close) is not forced.
ConnFairness ==
  \A c \in Conns : /\ WF_vars(HandlerStep(c))
                   /\ WF_vars(ReaderStep(c))
                   /\ WF_vars(WriterStep(c))

Fairness ==
  /\ WF_vars(MainStep)
  /\ WF_vars(DrainStep)
  /\ WF_vars(ListenerStep(MaxRouterConns))
  /\ ConnFairness

FairSpec == Spec /\ Fairness

\* The upstream link: the main goroutine, the stdin parser with the drain and
\* inject loops behind it, and the stdout writer; the accept loop, once
\* started, is given no connection.
UpNext ==
  \/ MainStep
  \/ ParsePacket
  \/ ParseRaw
  \/ ParseEOF
  \/ DrainStep
  \/ InjectStep
  \/ RouterToUpstream
  \/ StdoutWrite

UpSpec == Init /\ [][UpNext]_vars

UpFairness ==
  /\ WF_vars(MainStep)
  /\ WF_vars(DrainStep)
  /\ WF_vars(InjectStep)
  /\ WF_vars(StdoutWrite)

FairUpSpec == UpSpec /\ UpFairness

\* The whole process with the upstream link's traffic
FullNext == Next \/ ParsePacket \/ InjectStep \/ RouterToUpstream \/ StdoutWrite

FullSpec == Init /\ [][FullNext]_vars

\* The handlers on their own: the router is serving (startup has succeeded,
\* the accept loop runs), stdin and the listener stay open, and up to MaxConns
\* connections are accepted.
ServingInit ==
  /\ mpc = "serving"
  /\ cred = "valid"
  /\ sock = "owner"
  /\ upstreamBound = TRUE
  /\ announced = TRUE
  /\ ppc = "running"
  /\ dpc = "running"
  /\ rawCh = 0
  /\ rawClosed = FALSE
  /\ lpc = "accept"
  /\ listenerState = "open"
  /\ acceptErrs = 0
  /\ nAccepted = 0
  /\ slept = FALSE
  /\ routeMap = [r \in RouteIds |->
                   IF r = ConnServerRoute THEN ClientDest ELSE NoDest]
  /\ hpc = [c \in Conns |-> "none"]
  /\ rpc = [c \in Conns |-> "none"]
  /\ wpc = [c \in Conns |-> "none"]
  /\ connOpen = [c \in Conns |-> FALSE]
  /\ fromRemoteCh = [c \in Conns |-> "none"]
  /\ toRemoteCh = [c \in Conns |-> 0]
  /\ routeId = [c \in Conns |-> NoRoute]
  /\ routeIdContainer = [c \in Conns |-> NoRoute]
  /\ routeIdPtr = [c \in Conns |-> NoRoute]
  /\ log = [c \in Conns |-> <<>>]
  /\ nDecoded = 0
  /\ termFromRemoteCh = <<>>
  /\ termClosed = FALSE
  /\ ipc = "running"
  /\ injected = <<>>
  /\ nQueued = 0
  /\ termToRemoteCh = <<>>
  /\ opc = "running"
  /\ stdout = <<>>
  /\ shutdown = FALSE
  /\ exitCode = NotExited

ConnNext ==
  \/ AcceptConn(MaxConns)
  \/ \E c \in Conns : ConnStep(c)

ConnSpec == ServingInit /\ [][ConnNext]_vars

FairConnSpec == ConnSpec /\ ConnFairness

\* =================================================================
\* Properties
\* =================================================================
\* the calls of kind op that connection c's goroutines have made
Calls(c, op) == {i \in DOMAIN log[c] : log[c][i].op = op}
NumCalls(c, op) == Cardinality(Calls(c, op))

\* HandleClientProxyAuth has returned a route id / an error for c
Authenticated(c) == routeId[c] # NoRoute
AuthFailed(c) == Calls(c, "autherr") # {}
\* the handler has run to its end after a successful authentication
HandlerDone(c) == hpc[c] = "done"
\* the read loop has ended and the deferred teardown has run
Disconnected(c) == rpc[c] = "done"
\* the teardown has closed the connection and is on its way to the registry
TeardownUnderWay(c) == rpc[c] \in {"close", "load", "unregister"}
AuthenticatedConns == {c \in Conns : Authenticated(c)}
ProxyRoutes == {r \in RouteIds : routeMap[r] \in Conns}

\* C1: for N authenticated connections the registry holds exactly N distinct
\* routes once all have registered, and once each of them has disconnected
\* (read loop ended, teardown run, handler returned) none of their routes is
\* left in the registry.
C1_RegistryTracksConnections ==
  /\ (\A c \in AuthenticatedConns : HandlerDone(c) /\ rpc[c] = "reading")
       => Cardinality(ProxyRoutes) = Cardinality(AuthenticatedConns)
  /\ \A c \in AuthenticatedConns :
       (Disconnected(c) /\ HandlerDone(c)) => RoutesOf(c) = {}

\* C2: an authenticated connection whose connection has been closed and whose
\* teardown and handler have finished has seen exactly one UnregisterRoute and
\* exactly one Dispose, both for its own route id.
C2_ExactlyOneTeardown ==
  \A c \in AuthenticatedConns :
    (Disconnected(c) /\ HandlerDone(c)) =>
      /\ NumCalls(c, "unregister") = 1
      /\ NumCalls(c, "dispose") = 1
      /\ \A i \in Calls(c, "unregister") \cup Calls(c, "dispose") :
           log[c][i].route = routeId[c]

\* C3: a connection whose HandleClientProxyAuth returned an error is closed by
\* the handler, is never registered, has no route in the registry, and its
\* teardown neither unregisters nor injects a Dispose.
C3_AuthFailureNeverRegistered ==
  \A c \in Conns :
    AuthFailed(c) =>
      /\ hpc[c] \in {"authfail", "failed"}
      /\ hpc[c] = "failed" => ~connOpen[c]
      /\ ~Authenticated(c)
      /\ NumCalls(c, "register") = 0
      /\ RoutesOf(c) = {}
      /\ routeIdContainer[c] = NoRoute
      /\ NumCalls(c, "unregister") = 0
      /\ NumCalls(c, "dispose") = 0
      /\ rpc[c] \notin {"unregister", "dispose"}

\* an authentication failure whose teardown has run to its end
C3_Witness ==
  \E c \in Conns : AuthFailed(c) /\ hpc[c] = "failed" /\ Disconnected(c)

\* C4: every route registered for a connection has a live destination: the
\* connection is open and both workers run (the moment between the teardown's
\* conn.Close and its UnregisterRoute is let pass).
C4_RegisteredRouteIsLive ==
  \A c \in Conns :
    RoutesOf(c) # {} =>
      \/ connOpen[c] /\ wpc[c] = "running" /\ rpc[c] = "reading"
      \/ TeardownUnderWay(c)

\* C5: when the write worker has ended on a write error, the connection is
\* eventually closed and its route eventually out of the registry.
C5_WriteFailureTearsDown ==
  \A c \in Conns :
    (wpc[c] = "failed") ~> (~connOpen[c] /\ RoutesOf(c) = {})

\* C6: once a connection has been closed, its read worker ends (teardown
\* included) and its write worker ends too.
C6_ClosedConnWorkersEnd ==
  \A c \in Conns :
    (rpc[c] # "none" /\ ~connOpen[c]) ~> (rpc[c] = "done" /\ wpc[c] # "running")

\* a step by which connection c fails or is torn down
FailureStep(c) ==
  \/ AuthErr(c)
  \/ AuthErrClose(c)
  \/ ReadEnd(c)
  \/ ReadOnClosed(c)
  \/ TeardownClose(c)
  \/ TeardownLoad(c)
  \/ TeardownUnregister(c)
  \/ TeardownDispose(c)
  \/ WriteFail(c)

\* everything the process holds for connection d
ConnState(d) ==
  <<hpc[d], rpc[d], wpc[d], connOpen[d], fromRemoteCh[d], toRemoteCh[d],
    routeId[d], routeIdContainer[d], routeIdPtr[d], log[d]>>

\* C7: a failure step of one connection initiates no shutdown, leaves every
\* other connection's state and registry entries as they are, and what it
\* unregisters or disposes is that connection's own route id.
C7_FailureIsolated ==
  [][\A c \in Conns :
       FailureStep(c) =>
         /\ UNCHANGED shutVars
         /\ UNCHANGED <<mainVars, stdinVars, listenerVars, upVars>>
         /\ \A d \in Conns \ {c} : ConnState(d)' = ConnState(d)
         /\ \A r \in RouteIds : routeMap[r] # c => routeMap'[r] = routeMap[r]
         /\ \A i \in DOMAIN log'[c] \ DOMAIN log[c] :
              log'[c][i].route \in {NoRoute, routeId[c]}]_vars

\* one connection has failed its authentication and been torn down while
\* another is registered, open and served by both workers
C7_Witness ==
  \E c, d \in Conns :
    /\ c # d
    /\ AuthFailed(c) /\ hpc[c] = "failed" /\ Disconnected(c)
    /\ HandlerDone(d) /\ RoutesOf(d) # {} /\ connOpen[d]
    /\ rpc[d] = "reading" /\ wpc[d] = "running"

\* C8: shutdown is initiated with exit code 0 only by the drain loop, after
\* rawCh was closed and drained; with exit code 1 only by runListener's
\* deferred exit, after the accept loop ended and the grace delay was slept;
\* and by nothing else.
C8_ShutdownCauses ==
  /\ shutdown <=> (dpc = "done" \/ lpc = "done")
  /\ shutdown <=> exitCode # NotExited
  /\ exitCode = ExitOk <=> dpc = "done"
  /\ dpc = "done" => (ppc = "done" /\ rawClosed /\ rawCh = 0)
  /\ exitCode = ExitListener <=> lpc = "done"
  /\ lpc = "done" => (slept /\ listenerState = "eof")
  /\ lpc \in {"none", "accept", "sleep"} => ~slept
  /\ ~(dpc = "done" /\ lpc = "done")

\* the accept loop has ended and shut the process down with exit code 1
C8_Witness == shutdown /\ exitCode = ExitListener /\ slept /\ nAccepted > 0

\* C9: once the listener is closed, the accept loop ends and process shutdown
\* is initiated.
C9_ListenerClosureShutsDown ==
  (listenerState = "closed") ~> shutdown

\* C10: with a missing or invalid startup credential the accept loop is never
\* started, no connection is accepted or registered, the connserver route is
\* never registered and no route announcement is sent.
C10_BadCredentialNeverServes ==
  cred # "valid" =>
    /\ lpc = "none"
    /\ nAccepted = 0
    /\ \A c \in Conns : hpc[c] = "none"
    /\ \A r \in RouteIds : routeMap[r] = NoDest
    /\ ~announced
    /\ mpc \notin {"register", "announce", "golisten", "serving"}

\* setupConnServerRpcClientWithRouter has refused the credential, after the
\* listener was created
C10_Witness ==
  cred # "valid" /\ mpc = "failed" /\ sock = "owner" /\ listenerState = "open"

\* C12: MakeRemoteUnixListener removes whatever was at the socket path before
\* it listens, the socket it ends with is a fresh one, and whenever the socket
\* is listening (a client could connect to it) it is restricted to its owner.
C12_SocketOwnerOnlyWhenListening ==
  /\ mpc = "listen" => sock = "absent"
  /\ listenerState # "none" => sock \in {"bound", "owner"}
  /\ listenerState = "open" => sock = "owner"

\* C13: the teardown of an authenticated connection closes the connection
\* first, then unregisters the route, and only then injects the Dispose; the
\* Dispose has command Dispose, Source and payload RouteId equal to the
\* connection's own route id, the proxy's auth token and no destination
\* route, and is injected with that route id as its source route.
C13_TeardownOrderAndDispose ==
  \A c \in Conns :
    /\ rpc[c] \in {"unregister", "dispose"} => ~connOpen[c]
    /\ Calls(c, "unregister") # {} =>
         (~connOpen[c] /\ rpc[c] \in {"dispose", "done"})
    /\ \A i \in Calls(c, "dispose") :
         /\ rpc[c] = "done"
         /\ \E j \in Calls(c, "unregister") :
              j < i /\ log[c][j].route = log[c][i].route
         /\ Authenticated(c)
         /\ log[c][i].route = routeId[c]
         /\ log[c][i].msg.command = "dispose"
         /\ log[c][i].msg.source = routeId[c]
         /\ log[c][i].msg.data.routeid = routeId[c]
         /\ log[c][i].msg.authtoken = GetAuthToken(c)
         /\ log[c][i].msg.route = NoRoute

\* an authenticated connection whose teardown has injected its Dispose
C13_Witness ==
  \E c \in Conns :
    /\ Authenticated(c) /\ Disconnected(c) /\ ~connOpen[c]
    /\ Calls(c, "unregister") # {} /\ Calls(c, "dispose") # {}

\* the read worker is inside its deferred teardown, or through with it
InTeardown(c) == rpc[c] \in {"close", "load", "unregister", "dispose", "done"}

\* C15: under every interleaving a connection's teardown runs at most once
\* (the read worker never re-enters it), there is at most one UnregisterRoute
\* call and one Dispose injection per connection, as many Dispose injections
\* as UnregisterRoute calls for a route id once the teardown has completed,
\* and at most one RegisterRoute call per connection.
C15_AtMostOnce ==
  /\ [](\A c \in Conns :
          /\ NumCalls(c, "unregister") <= 1
          /\ NumCalls(c, "dispose") <= 1
          /\ NumCalls(c, "register") <= 1
          /\ Disconnected(c) =>
               \A r \in RouteIds :
                 Cardinality({i \in Calls(c, "dispose") : log[c][i].route = r})
                   = Cardinality({i \in Calls(c, "unregister") :
                                    log[c][i].route = r}))
  /\ [][\A c \in Conns :
          /\ InTeardown(c) => InTeardown(c)'
          /\ (InTeardown(c) /\ rpc[c] # "close") => rpc'[c] # "close"
          /\ rpc[c] = "done" => rpc'[c] = "done"]_vars

\* a connection that registered, was torn down once and whose handler is done
C15_Witness ==
  \E c \in Conns :
    /\ HandlerDone(c) /\ Disconnected(c)
    /\ NumCalls(c, "register") = 1
    /\ NumCalls(c, "unregister") = 1
    /\ NumCalls(c, "dispose") = 1

\* C16: a connection's teardown calls UnregisterRoute(r) and injects the
\* Dispose for r only after that connection's RegisterRoute(r) has returned
\* (the route id is stored for the teardown after the registration), and no
\* RegisterRoute(r) of a connection follows its UnregisterRoute(r).
C16_RegisterBeforeUnregister ==
  \A c \in Conns :
    /\ routeIdContainer[c] # NoRoute =>
         \E j \in Calls(c, "register") : log[c][j].route = routeIdContainer[c]
    /\ rpc[c] \in {"unregister", "dispose"} =>
         \E j \in Calls(c, "register") : log[c][j].route = routeIdPtr[c]
    /\ \A i \in Calls(c, "unregister") \cup Calls(c, "dispose") :
         /\ \E j \in Calls(c, "register") :
              j < i /\ log[c][j].route = log[c][i].route
         /\ \A j \in Calls(c, "register") : j < i
         /\ hpc[c] = "done"

\* a connection's record shows register, then unregister, then dispose
C16_Witness ==
  \E c \in Conns :
    \E i \in Calls(c, "register"), j \in Calls(c, "unregister"),
       k \in Calls(c, "dispose") : i < j /\ j < k

\* the connserver's own endpoint has been admitted and registered
LocalRegistered == routeMap[ConnServerRoute] = ClientDest
\* a client connection has been accepted, authenticated or registered
ClientSeen ==
  \/ nAccepted > 0
  \/ \E c \in Conns : hpc[c] # "none" \/ Authenticated(c) \/ RoutesOf(c) # {}

\* C17: no client connection is accepted, authenticated or registered before
\* the upstream proxy is bound, the local endpoint is admitted and registered
\* and its route announcement is sent; startup goes bind upstream, create
\* listener, admit and register the local endpoint, announce, start the
\* accept loop.
C17_StartupOrder ==
  /\ ClientSeen => (upstreamBound /\ LocalRegistered /\ announced /\ lpc # "none")
  /\ lpc # "none" => (announced /\ mpc = "serving")
  /\ announced => LocalRegistered
  /\ LocalRegistered => (cred = "valid" /\ listenerState # "none")
  /\ listenerState # "none" => upstreamBound

\* a client is registered while the process serves
C17_Witness ==
  /\ mpc = "serving" /\ upstreamBound /\ LocalRegistered /\ announced
  /\ \E c \in Conns : HandlerDone(c) /\ RoutesOf(c) # {}

\* the envelopes injected for the upstream so far are the first of the stream,
\* each once, in the order they were decoded, under the upstream sentinel; the
\* rest wait, in order, on termProxy.FromRemoteCh
InjectedInOrder ==
  /\ \A i \in DOMAIN injected :
       injected[i].msg = i /\ injected[i].source = UpstreamRoute
  /\ \A i \in DOMAIN termFromRemoteCh :
       termFromRemoteCh[i] = Len(injected) + i
  /\ Len(injected) + Len(termFromRemoteCh) = nDecoded

\* the packets written to stdout so far are the first that were queued on
\* termProxy.ToRemoteCh, each once, in queue order
WrittenInOrder ==
  /\ \A i \in DOMAIN stdout : stdout[i] = i
  /\ \A i \in DOMAIN termToRemoteCh : termToRemoteCh[i] = Len(stdout) + i
  /\ Len(stdout) + Len(termToRemoteCh) = nQueued

\* C14: every envelope decoded from stdin is injected into the router exactly
\* once, under the upstream sentinel and in decode order; every message
\* queued on the upstream proxy's outbound queue is written to stdout in
\* queue order, whatever the reading side does.
C14_UpstreamForwarding ==
  /\ [](InjectedInOrder /\ WrittenInOrder)
  /\ \A k \in 1..MaxPackets : (nDecoded >= k) ~> (Len(injected) >= k)
  /\ \A k \in 1..MaxOut : (nQueued >= k) ~> (Len(stdout) >= k)

\* C18: when the shutdown that follows the closing of rawCh is initiated,
\* every envelope decoded from stdin has been injected (none is left on
\* termProxy.FromRemoteCh), and every upstream envelope was injected with the
\* upstream binding in place.
C18_ShutdownAfterInjection ==
  /\ (shutdown /\ exitCode = ExitOk) =>
       (termFromRemoteCh = <<>> /\ Len(injected) = nDecoded)
  /\ \A i \in DOMAIN injected : injected[i].bound

\* the accept loop has ended: runListener is in its deferred exit (log
\* "listener closed, exiting", grace delay, DoShutdown)
AcceptLoopEnded == lpc \in {"sleep", "exit", "done"}

\* the upstream stream has reached its end: Parse has closed its channels
UpstreamEnded == ppc = "done"

\* process shutdown has been initiated: one of its two triggers has occurred
\* (the upstream stream ended, the accept loop ended) or DoShutdown was called
ShutdownInitiated == shutdown \/ UpstreamEnded \/ AcceptLoopEnded

\* a step that delivers: a RegisterRoute, an InjectMessage (a teardown's
\* Dispose, an upstream envelope), a packet written to stdout or to a
\* client's socket
DeliveryStep ==
  \/ \E c \in Conns : HandlerRegister(c) \/ TeardownDispose(c) \/ WriteOk(c)
  \/ UpstreamInject
  \/ StdoutWrite

====
